---- MODULE Spec2Model ----
(***************************************************************************)
(* The in-memory blob descriptor cache of registry/storage/cache/memory.go *)
(* as a state machine: one global leaf cache, a table of lazily allocated  *)
(* per-repository leaf caches, and one repository-scoped view per thread.  *)
(* Every step of a thread is one lock-protected critical section of the    *)
(* source (one access to a map under its mutex).                           *)
(***************************************************************************)
EXTENDS Integers, Sequences, FiniteSets, TLC

\* ------------------------------------------------------------------ bounds

\* Calls started over a whole run.
MaxCalls == 4

\* Concurrent callers (goroutines); each holds at most one view at a time.
Threads == {"t1", "t2"}

\* ------------------------------------------------------------------ values

\* digest.Digest "<alg>:<hex>": two digests of one algorithm, one of another,
\* and "sha256:", which fails validation (no hex part).
Digests ==
    { [alg |-> "sha256", hex |-> "a"],
      [alg |-> "sha256", hex |-> "b"],
      [alg |-> "tarsum", hex |-> "a"],
      [alg |-> "sha256", hex |-> ""] }

\* The digests descriptors carry as their own (canonical) digest. They are
\* well-formed: line 50 takes desc.Digest.Algorithm() before the descriptor is
\* validated, which is defined only for a digest with a separator.
CanonicalDigests ==
    { [alg |-> "sha256", hex |-> "a"],
      [alg |-> "tarsum", hex |-> "a"] }

\* size of a descriptor; a negative size is malformed.
Sizes == {-1, 1}

\* distribution.Descriptor: the canonical digest and the payload.
Descriptors == [digest : CanonicalDigests, size : Sizes]

\* distribution.Descriptor{}: the zero value returned beside an error.
EmptyDescriptor == [digest |-> [alg |-> "", hex |-> ""], size |-> 0]

\* repository names; the empty name fails validation.
RepoNames == {"r1", "r2", ""}

\* digest.Digest.Algorithm(): the part before the separator.
Algorithm(dgst) == dgst.alg

\* validateDigest: the error of digest validation ("nil" when well-formed).
validateDigest(dgst) ==
    IF dgst.hex = "" THEN "InvalidDigest" ELSE "nil"

\* validateDescriptor: the digest of the descriptor is well-formed and the
\* size is not negative.
validateDescriptor(desc) ==
    IF validateDigest(desc.digest) # "nil" \/ desc.size < 0
    THEN "InvalidDescriptor"
    ELSE "nil"

\* v2.ValidateRepositoryName
ValidateRepositoryName(repo) ==
    IF repo = "" THEN "InvalidRepositoryName" ELSE "nil"

\* ------------------------------------------------------------------ state

VARIABLES
    global,        \* imbdcp.global.descriptors: digest -> descriptor (partial)
    heap,          \* every mapBlobDescriptorCache made for a repository, in
                   \* allocation order: [repo, descriptors]
    repositories,  \* imbdcp.repositories: repo name -> index into heap (partial)
    view,          \* per thread, its repositoryScopedInMemoryBlobDescriptorCache:
                   \* [repo, repository]; repository = 0 is the nil pointer
    pc,            \* per thread, where it stands in its current call
    op,            \* per thread, the call it is inside and its arguments
    returned,      \* the call that returned in the last step, with its result
    ncalls,        \* calls started so far
    held           \* per thread, the mutexes it holds, each with its mode

vars == <<global, heap, repositories, view, pc, op, returned, ncalls, held>>

\* newMapBlobDescriptorCache: an empty descriptor map.
newMapBlobDescriptorCache == [d \in {} |-> EmptyDescriptor]

NoView == [repo |-> "", repository |-> 0]
NoOp == [kind |-> "none", dgst |-> EmptyDescriptor.digest,
         desc |-> EmptyDescriptor, repo |-> ""]
Nothing == [thread |-> "", op |-> NoOp, desc |-> EmptyDescriptor, err |-> "nil",
            lookup |-> "none"]

Init ==
    /\ global = newMapBlobDescriptorCache
    /\ heap = <<>>
    /\ repositories = [r \in {} |-> 0]
    /\ view = [t \in Threads |-> NoView]
    /\ pc = [t \in Threads |-> "idle"]
    /\ op = [t \in Threads |-> NoOp]
    /\ returned = Nothing
    /\ ncalls = 0
    /\ held = [t \in Threads |-> {}]

\* ------------------------------------------------------------------ leaf cache

\* mapBlobDescriptorCache.Stat without the validation of lines 120-122.
StatUnvalidated(m, dgst) ==
    IF dgst \notin DOMAIN m
    THEN [desc |-> EmptyDescriptor, err |-> "ErrBlobUnknown"]
    ELSE [desc |-> m[dgst], err |-> "nil"]

\* mapBlobDescriptorCache.Stat on the map m.
Stat(m, dgst) ==
    IF validateDigest(dgst) # "nil"
    THEN [desc |-> EmptyDescriptor, err |-> validateDigest(dgst)]
    ELSE IF dgst \notin DOMAIN m
         THEN [desc |-> EmptyDescriptor, err |-> "ErrBlobUnknown"]
         ELSE [desc |-> m[dgst], err |-> "nil"]

\* mapBlobDescriptorCache.SetDescriptor without the assignment of line 147.
SetDescriptorStoresNothing(m, dgst, desc) ==
    IF validateDigest(dgst) # "nil"
    THEN [descriptors |-> m, err |-> validateDigest(dgst)]
    ELSE [descriptors |-> m, err |-> validateDescriptor(desc)]

\* mapBlobDescriptorCache.SetDescriptor on the map m: the map afterwards and
\* the error returned.
SetDescriptor(m, dgst, desc) ==
    IF validateDigest(dgst) # "nil"
    THEN [descriptors |-> m, err |-> validateDigest(dgst)]
    ELSE IF validateDescriptor(desc) # "nil"
         THEN [descriptors |-> m, err |-> validateDescriptor(desc)]
         ELSE [descriptors |->
                   [k \in DOMAIN m \cup {dgst} |-> IF k = dgst THEN desc ELSE m[k]],
               err |-> "nil"]

\* ------------------------------------------------------------------ calls

\* A thread starts a call only when it is not inside one.
Begin(t) ==
    /\ pc[t] = "idle"
    /\ ncalls < MaxCalls
    /\ ncalls' = ncalls + 1

\* The call o of thread t returns r; lookup is what the lookup of line 47 gave
\* when the call went through it.
Return(t, o, r, lookup) ==
    /\ pc' = [pc EXCEPT ![t] = "idle"]
    /\ op' = [op EXCEPT ![t] = NoOp]
    /\ returned' = [thread |-> t, op |-> o, desc |-> r.desc, err |-> r.err,
                    lookup |-> lookup]

\* The call o of thread t goes on at the place next.
Goto(t, o, next) ==
    /\ pc' = [pc EXCEPT ![t] = next]
    /\ op' = [op EXCEPT ![t] = o]
    /\ returned' = Nothing

\* The result of a call that returns only an error.
OnlyErr(e) == [desc |-> EmptyDescriptor, err |-> e]

\* A lookup that hands out the one leaf cache of another repository when the
\* name has no entry.
LookupSharesLeaf(repos, repo) ==
    IF repo \in DOMAIN repos
    THEN repos[repo]
    ELSE IF DOMAIN repos = {} THEN 0 ELSE repos[CHOOSE r \in DOMAIN repos : TRUE]

\* imbdcp.repositories[repo]: the entry, or the nil pointer when there is none.
Lookup(repos, repo) ==
    IF repo \in DOMAIN repos THEN repos[repo] ELSE 0

\* RepositoryScoped making and registering a leaf cache for a name that has
\* no entry.
RepositoryScopedAllocates(t, repo) ==
    LET o == [NoOp EXCEPT !.kind = "RepositoryScoped", !.repo = repo] IN
    /\ Begin(t)
    /\ IF ValidateRepositoryName(repo) # "nil"
       THEN /\ view' = view
            /\ Return(t, o, OnlyErr(ValidateRepositoryName(repo)), "none")
            /\ UNCHANGED <<heap, repositories>>
       ELSE /\ IF repo \in DOMAIN repositories
               THEN /\ view' = [view EXCEPT ![t] =
                                   [repo |-> repo, repository |-> repositories[repo]]]
                    /\ UNCHANGED <<heap, repositories>>
               ELSE /\ heap' = Append(heap, [repo |-> repo,
                                             descriptors |-> newMapBlobDescriptorCache])
                    /\ repositories' =
                           [r \in DOMAIN repositories \cup {repo} |->
                               IF r = repo THEN Len(heap) + 1 ELSE repositories[r]]
                    /\ view' = [view EXCEPT ![t] =
                                   [repo |-> repo, repository |-> Len(heap) + 1]]
            /\ Return(t, o, OnlyErr("nil"), "none")
    /\ UNCHANGED global

\* inMemoryBlobDescriptorCacheProvider.RepositoryScoped
RepositoryScoped(t, repo) ==
    LET o == [NoOp EXCEPT !.kind = "RepositoryScoped", !.repo = repo] IN
    /\ Begin(t)
    /\ IF ValidateRepositoryName(repo) # "nil"
       THEN /\ view' = view
            /\ Return(t, o, OnlyErr(ValidateRepositoryName(repo)), "none")
       ELSE /\ view' = [view EXCEPT ![t] =
                           [repo |-> repo, repository |-> Lookup(repositories, repo)]]
            /\ Return(t, o, OnlyErr("nil"), "none")
    /\ UNCHANGED <<global, heap, repositories>>

\* inMemoryBlobDescriptorCacheProvider.Stat
ProviderStat(t, dgst) ==
    LET o == [NoOp EXCEPT !.kind = "ProviderStat", !.dgst = dgst] IN
    /\ Begin(t)
    /\ Return(t, o, Stat(global, dgst), "none")
    /\ UNCHANGED <<global, heap, repositories, view>>

\* Line 50 with the comparison of the algorithms inverted.
CanonicalDiffersSameAlgorithm(dgst, desc) ==
    Algorithm(dgst) = Algorithm(desc.digest) /\ dgst # desc.digest

\* The condition of line 50: the canonical mapping is set as well.
CanonicalDiffers(dgst, desc) ==
    Algorithm(dgst) # Algorithm(desc.digest) /\ dgst # desc.digest

\* Lines 47-62 without the test of line 48: a known digest is set again.
ParentLookupOverwrites(t, o) ==
    Goto(t, o, IF CanonicalDiffers(o.dgst, o.desc) THEN "canon" ELSE "alias")

\* Lines 47-49 and 61-62 of provider.SetDescriptor, for the call o of thread
\* t: the lookup, and the return when the digest is known or the lookup failed.
ParentLookup(t, o) ==
    LET r == Stat(global, o.dgst) IN
    IF r.err = "ErrBlobUnknown"
    THEN Goto(t, o, IF CanonicalDiffers(o.dgst, o.desc) THEN "canon" ELSE "alias")
    ELSE Return(t, o, OnlyErr(r.err), r.err)

\* inMemoryBlobDescriptorCacheProvider.SetDescriptor, up to its lookup.
ProviderSetDescriptor(t, dgst, desc) ==
    /\ Begin(t)
    /\ ParentLookup(t, [NoOp EXCEPT !.kind = "ProviderSet", !.dgst = dgst, !.desc = desc])
    /\ UNCHANGED <<global, heap, repositories, view>>

\* Line 101: the view's call of provider.SetDescriptor, up to its lookup.
ParentStat(t) ==
    /\ pc[t] = "stat"
    /\ ParentLookup(t, op[t])
    /\ UNCHANGED <<global, heap, repositories, view, ncalls>>

\* Lines 52-54 left out: the call goes on to the alias without storing the
\* descriptor under its own digest.
SetCanonicalSkipped(t) ==
    /\ pc[t] = "canon"
    /\ Goto(t, op[t], "alias")
    /\ UNCHANGED <<global, heap, repositories, view, ncalls>>

\* Lines 52-54 storing the descriptor under its own digest without the
\* validation of lines 136-142.
SetCanonicalUnvalidated(t) ==
    /\ pc[t] = "canon"
    /\ global' = [k \in DOMAIN global \cup {op[t].desc.digest} |->
                     IF k = op[t].desc.digest THEN op[t].desc ELSE global[k]]
    /\ Goto(t, op[t], "alias")
    /\ UNCHANGED <<heap, repositories, view, ncalls>>

\* Lines 52-54: the descriptor is stored under its own digest.
SetCanonical(t) ==
    /\ pc[t] = "canon"
    /\ LET r == SetDescriptor(global, op[t].desc.digest, op[t].desc) IN
       /\ global' = r.descriptors
       /\ IF r.err # "nil"
          THEN Return(t, op[t], OnlyErr(r.err), "ErrBlobUnknown")
          ELSE Goto(t, op[t], "alias")
    /\ UNCHANGED <<heap, repositories, view, ncalls>>

\* Line 58: the descriptor is stored under the digest asked for.
SetAlias(t) ==
    /\ pc[t] = "alias"
    /\ LET r == SetDescriptor(global, op[t].dgst, op[t].desc) IN
       /\ global' = r.descriptors
       /\ Return(t, op[t], OnlyErr(r.err), "ErrBlobUnknown")
    /\ UNCHANGED <<heap, repositories, view, ncalls>>

\* Lines 75-77 answering from the global cache when the view is unbound.
RepositoryStatGlobalFallback(i, dgst) ==
    IF i = 0
    THEN Stat(global, dgst)
    ELSE Stat(heap[i].descriptors, dgst)

\* repositoryScopedInMemoryBlobDescriptorCache.Stat on a view whose backing
\* reference is i (0 is nil).
RepositoryStat(i, dgst) ==
    IF i = 0
    THEN [desc |-> EmptyDescriptor, err |-> "ErrBlobUnknown"]
    ELSE Stat(heap[i].descriptors, dgst)

\* A Stat through a view that reads the table's entry for the view's
\* repository instead of the view's own backing reference.
ViewStatReadsTable(t, dgst) ==
    LET o == [NoOp EXCEPT !.kind = "ViewStat", !.dgst = dgst, !.repo = view[t].repo] IN
    /\ Begin(t)
    /\ view[t] # NoView
    /\ Return(t, o, RepositoryStat(Lookup(repositories, view[t].repo), dgst), "none")
    /\ UNCHANGED <<global, heap, repositories, view>>

\* A call of repositoryScopedInMemoryBlobDescriptorCache.Stat.
ViewStat(t, dgst) ==
    LET o == [NoOp EXCEPT !.kind = "ViewStat", !.dgst = dgst, !.repo = view[t].repo] IN
    /\ Begin(t)
    /\ view[t] # NoView
    /\ Return(t, o, RepositoryStat(view[t].repository, dgst), "none")
    /\ UNCHANGED <<global, heap, repositories, view>>

\* Lines 85-94 without the read-back of line 88: a leaf cache is made and
\* registered whether or not the table has one.
LazyAllocateNoReadBack(t) ==
    /\ heap' = Append(heap, [repo |-> view[t].repo,
                             descriptors |-> newMapBlobDescriptorCache])
    /\ repositories' =
           [r \in DOMAIN repositories \cup {view[t].repo} |->
               IF r = view[t].repo THEN Len(heap) + 1 ELSE repositories[r]]
    /\ view' = [view EXCEPT ![t].repository = Len(heap) + 1]

\* Lines 85-94 without the registration of line 91: the view is bound to a
\* leaf cache the table does not hold.
LazyAllocateUnregistered(t) ==
    /\ heap' = Append(heap, [repo |-> view[t].repo,
                             descriptors |-> newMapBlobDescriptorCache])
    /\ repositories' = repositories
    /\ view' = [view EXCEPT ![t].repository = Len(heap) + 1]

\* Lines 85-94: under the table's lock the entry is read back, and a leaf cache
\* is made and registered when there is none.
LazyAllocate(t) ==
    IF Lookup(repositories, view[t].repo) # 0
    THEN /\ view' = [view EXCEPT ![t].repository = Lookup(repositories, view[t].repo)]
         /\ UNCHANGED <<heap, repositories>>
    ELSE /\ heap' = Append(heap, [repo |-> view[t].repo,
                                  descriptors |-> newMapBlobDescriptorCache])
         /\ repositories' =
                [r \in DOMAIN repositories \cup {view[t].repo} |->
                    IF r = view[t].repo THEN Len(heap) + 1 ELSE repositories[r]]
         /\ view' = [view EXCEPT ![t].repository = Len(heap) + 1]

\* Lines 97-101 with the mirroring of line 101 left out: the call returns after
\* the write to the leaf cache.
RepositoryWriteOnly(t, o, i) ==
    LET r == SetDescriptor(heap[i].descriptors, o.dgst, o.desc) IN
    /\ heap' = [heap EXCEPT ![i].descriptors = r.descriptors]
    /\ Return(t, o, OnlyErr(r.err), "none")

\* Lines 97-101 without the return of lines 97-99: the provider's
\* SetDescriptor is called whether or not the write to the leaf cache failed.
RepositoryWriteIgnoresError(t, o, i) ==
    LET r == SetDescriptor(heap[i].descriptors, o.dgst, o.desc) IN
    /\ heap' = [heap EXCEPT ![i].descriptors = r.descriptors]
    /\ Goto(t, o, "stat")

\* Lines 97-99, for the call o of thread t: the write to the view's leaf cache
\* i, and the return when it fails.
RepositoryWrite(t, o, i) ==
    LET r == SetDescriptor(heap[i].descriptors, o.dgst, o.desc) IN
    /\ heap' = [heap EXCEPT ![i].descriptors = r.descriptors]
    /\ IF r.err # "nil"
       THEN Return(t, o, OnlyErr(r.err), "none")
       ELSE Goto(t, o, "stat")

\* repositoryScopedInMemoryBlobDescriptorCache.SetDescriptor, up to its first
\* critical section: the allocation when the view is unbound, the write to
\* the leaf cache otherwise.
ViewSetDescriptor(t, dgst, desc) ==
    LET o == [kind |-> "ViewSet", dgst |-> dgst, desc |-> desc, repo |-> view[t].repo] IN
    /\ Begin(t)
    /\ view[t] # NoView
    /\ IF view[t].repository = 0
       THEN /\ LazyAllocate(t)
            /\ Goto(t, o, "repoSet")
       ELSE /\ RepositoryWrite(t, o, view[t].repository)
            /\ UNCHANGED <<repositories, view>>
    /\ UNCHANGED global

\* Line 97 after an allocation.
ViewWrite(t) ==
    /\ pc[t] = "repoSet"
    /\ RepositoryWrite(t, op[t], view[t].repository)
    /\ UNCHANGED <<global, repositories, view, ncalls>>

\* One step of thread t.
Step(t) ==
    \/ \E repo \in RepoNames : RepositoryScoped(t, repo)
    \/ \E dgst \in Digests : ProviderStat(t, dgst)
    \/ \E dgst \in Digests, desc \in Descriptors : ProviderSetDescriptor(t, dgst, desc)
    \/ \E dgst \in Digests : ViewStat(t, dgst)
    \/ \E dgst \in Digests, desc \in Descriptors : ViewSetDescriptor(t, dgst, desc)
    \/ ViewWrite(t)
    \/ ParentStat(t)
    \/ SetCanonical(t)
    \/ SetAlias(t)

\* A step is a whole critical section, from the acquisition of its mutex to
\* its release: between steps no mutex is held.
Next == \E t \in Threads : Step(t) /\ UNCHANGED held

\* Any number of threads, their calls interleaved at every critical section.
Spec == Init /\ [][Next]_vars

\* Calls that do not overlap: a thread steps only while no other thread is
\* inside a call.
NextSeq ==
    \E t \in Threads :
        /\ \A u \in Threads \ {t} : pc[u] = "idle"
        /\ Step(t)
        /\ UNCHANGED held

SpecSeq == Init /\ [][NextSeq]_vars

\* The digests a thread writes through its views when the writers use
\* pairwise distinct digests (the malformed digest stores nothing).
OwnDigests(t) ==
    IF t = "t1"
    THEN {[alg |-> "sha256", hex |-> "a"], [alg |-> "sha256", hex |-> ""]}
    ELSE {[alg |-> "sha256", hex |-> "b"], [alg |-> "tarsum", hex |-> "a"],
          [alg |-> "sha256", hex |-> ""]}

\* Concurrent callers whose writes through views use pairwise distinct
\* digests; every other call is as in Next.
NextOwn ==
    \E t \in Threads :
        /\ \/ \E repo \in RepoNames : RepositoryScoped(t, repo)
           \/ \E dgst \in Digests : ProviderStat(t, dgst)
           \/ \E dgst \in Digests, desc \in Descriptors : ProviderSetDescriptor(t, dgst, desc)
           \/ \E dgst \in Digests : ViewStat(t, dgst)
           \/ \E dgst \in OwnDigests(t), desc \in Descriptors : ViewSetDescriptor(t, dgst, desc)
           \/ ViewWrite(t)
           \/ ParentStat(t)
           \/ SetCanonical(t)
           \/ SetAlias(t)
        /\ UNCHANGED held

SpecOwn == Init /\ [][NextOwn]_vars

\* ------------------------------------------------------------------ mutexes

\* imbdcp.mu, held for reading ("R") or for writing ("W").
TableMu(mode) == [mu |-> "provider", leaf |-> 0, mode |-> mode]

\* mbdc.mu of a leaf cache: leaf 0 is the global one, leaf i > 0 is heap[i].
LeafMu(i, mode) == [mu |-> "leaf", leaf |-> i, mode |-> mode]

SameMutex(a, b) == a.mu = b.mu /\ a.leaf = b.leaf

\* sync.RWMutex: a read lock is granted while no one holds the mutex for
\* writing, a write lock while no one holds it at all (the caller included).
Free(l) ==
    \A u \in Threads : \A h \in held[u] :
        SameMutex(h, l) => (l.mode = "R" /\ h.mode = "R")

\* Lines 120-125: Stat locks the leaf cache for reading once the digest has
\* passed validation.
StatLock(i, dgst) ==
    IF validateDigest(dgst) = "nil" THEN {LeafMu(i, "R")} ELSE {}

\* Lines 136-145: SetDescriptor locks the leaf cache for writing once the
\* digest and the descriptor have passed validation.
SetLock(i, dgst, desc) ==
    IF validateDigest(dgst) = "nil" /\ validateDescriptor(desc) = "nil"
    THEN {LeafMu(i, "W")}
    ELSE {}

\* The mutex that the next critical section of thread t's call takes (none
\* when the section returns before locking).
Needed(t) ==
    LET o == op[t] IN
    CASE pc[t] = "idle" /\ o.kind = "RepositoryScoped" ->
             IF ValidateRepositoryName(o.repo) = "nil" THEN {TableMu("R")} ELSE {}
      [] pc[t] = "idle" /\ o.kind \in {"ProviderStat", "ProviderSet"} ->
             StatLock(0, o.dgst)
      [] pc[t] = "idle" /\ o.kind = "ViewStat" ->
             IF view[t].repository = 0
             THEN {}
             ELSE StatLock(view[t].repository, o.dgst)
      [] pc[t] = "idle" /\ o.kind = "ViewSet" ->
             IF view[t].repository = 0
             THEN {TableMu("W")}
             ELSE SetLock(view[t].repository, o.dgst, o.desc)
      [] pc[t] = "repoSet" -> SetLock(view[t].repository, o.dgst, o.desc)
      [] pc[t] = "stat" -> StatLock(0, o.dgst)
      [] pc[t] = "canon" -> SetLock(0, o.desc.digest, o.desc)
      [] pc[t] = "alias" -> SetLock(0, o.dgst, o.desc)
      [] OTHER -> {}

\* The arguments of the calls made where the mutexes are followed: a digest
\* the descriptors have as their own, one of another algorithm, a malformed
\* one; a well-formed and a malformed descriptor; a well-formed and a
\* malformed repository name.
LockDigests ==
    { [alg |-> "sha256", hex |-> "a"],
      [alg |-> "tarsum", hex |-> "a"],
      [alg |-> "sha256", hex |-> ""] }

LockDescriptors == [digest : {[alg |-> "sha256", hex |-> "a"]}, size : Sizes]

LockRepoNames == {"r1", ""}

\* The calls thread t can make, with their arguments.
Calls(t) ==
    {[NoOp EXCEPT !.kind = "RepositoryScoped", !.repo = r] : r \in LockRepoNames}
    \cup {[NoOp EXCEPT !.kind = "ProviderStat", !.dgst = d] : d \in LockDigests}
    \cup {[NoOp EXCEPT !.kind = "ProviderSet", !.dgst = d, !.desc = v] :
              d \in LockDigests, v \in LockDescriptors}
    \cup {[NoOp EXCEPT !.kind = k, !.dgst = d, !.desc = v, !.repo = view[t].repo] :
              k \in (IF view[t] = NoView THEN {} ELSE {"ViewSet"}),
              d \in LockDigests, v \in LockDescriptors}
    \cup {[NoOp EXCEPT !.kind = k, !.dgst = d, !.repo = view[t].repo] :
              k \in (IF view[t] = NoView THEN {} ELSE {"ViewStat"}),
              d \in LockDigests}

\* Calls entered whose first critical section has not run yet.
Pending == {u \in Threads : pc[u] = "idle" /\ op[u] # NoOp}

\* Thread t enters the call o.
Call(t, o) ==
    /\ pc[t] = "idle"
    /\ op[t] = NoOp
    /\ ncalls + Cardinality(Pending) < MaxCalls
    /\ op' = [op EXCEPT ![t] = o]
    /\ returned' = Nothing
    /\ UNCHANGED <<global, heap, repositories, view, pc, ncalls, held>>

\* mu.RLock() / mu.Lock(): thread t takes the mutex of its next critical
\* section, waiting until it is free.
AcquireLock(t) ==
    /\ op[t] # NoOp
    /\ \E l \in Needed(t) \ held[t] :
          /\ Free(l)
          /\ held' = [held EXCEPT ![t] = held[t] \cup {l}]
    /\ returned' = Nothing
    /\ UNCHANGED <<global, heap, repositories, view, pc, op, ncalls>>

\* An unlock that is left out.
UnlockLeftOut(t, ls) == held' = held

\* mu.RUnlock() / mu.Unlock() at the end of a critical section.
Unlock(t, ls) == held' = [held EXCEPT ![t] = held[t] \ ls]

\* Thread t, holding the mutex of its next critical section, runs the section
\* and releases the mutex.
Section(t) ==
    /\ op[t] # NoOp
    /\ Needed(t) \subseteq held[t]
    /\ Unlock(t, Needed(t))
    /\ \/ op[t].kind = "RepositoryScoped" /\ RepositoryScoped(t, op[t].repo)
       \/ op[t].kind = "ProviderStat" /\ ProviderStat(t, op[t].dgst)
       \/ op[t].kind = "ProviderSet" /\ ProviderSetDescriptor(t, op[t].dgst, op[t].desc)
       \/ op[t].kind = "ViewStat" /\ ViewStat(t, op[t].dgst)
       \/ op[t].kind = "ViewSet" /\ ViewSetDescriptor(t, op[t].dgst, op[t].desc)
       \/ ViewWrite(t)
       \/ ParentStat(t)
       \/ SetCanonical(t)
       \/ SetAlias(t)

NextLock ==
    \E t \in Threads :
        \/ \E o \in Calls(t) : Call(t, o)
        \/ AcquireLock(t)
        \/ Section(t)

\* Concurrent callers with the mutexes taken and released in steps of their
\* own; a thread that can take its mutex or run its section eventually does.
SpecLock ==
    /\ Init
    /\ [][NextLock]_vars
    /\ \A t \in Threads : WF_vars(AcquireLock(t) \/ Section(t))


\* ------------------------------------------------------------------ properties

ValidDigest(dgst) == validateDigest(dgst) = "nil"
ValidDescriptor(desc) == validateDescriptor(desc) = "nil"

\* What a successful Stat returns for the descriptor desc.
Found(desc) == [desc |-> desc, err |-> "nil"]

\* In the step taken, the call of thread t returns.
Returns(t) == returned'.thread = t

\* The step taken is one of thread t.
Stepper(t) == returned'.thread = t \/ pc'[t] # pc[t]

\* The call that the step of thread t belongs to.
CallOf(t) == IF returned'.thread = t THEN returned'.op ELSE op'[t]

\* provider.SetDescriptor(D, V) has just returned success for a well-formed D
\* that the global cache did not hold and a well-formed V.
ProviderSetOfNew ==
    /\ returned.op.kind = "ProviderSet"
    /\ returned.err = "nil"
    /\ returned.lookup = "ErrBlobUnknown"
    /\ ValidDigest(returned.op.dgst)
    /\ ValidDescriptor(returned.op.desc)

C2_FirstSeenWins ==
    [][\A d \in DOMAIN global : d \in DOMAIN global' /\ global'[d] = global[d]]_vars

\* C3: a provider.SetDescriptor(D, V2) that no other call overlaps, on a global
\* cache that holds D (as after an earlier successful SetDescriptor(D, V)),
\* returns success and leaves the global cache as it was: Stat(D) keeps
\* returning the first descriptor.
C3_SecondSetKeepsFirst ==
    [][\A t \in Threads :
          (Returns(t) /\ returned'.op.kind = "ProviderSet"
                      /\ returned'.op.dgst \in DOMAIN global)
              => (returned'.err = "nil" /\ global' = global)]_vars

\* A second provider.SetDescriptor(D, V2), with a well-formed V2 that is not
\* the descriptor held under D, has returned success.
C3_Witness ==
    /\ returned.op.kind = "ProviderSet"
    /\ returned.err = "nil"
    /\ returned.lookup = "nil"
    /\ ValidDescriptor(returned.op.desc)
    /\ Stat(global, returned.op.dgst).err = "nil"
    /\ Stat(global, returned.op.dgst).desc # returned.op.desc

\* SetDescriptor(D, V) through a view has just returned success for a
\* well-formed D and V.
ViewSetSucceeded ==
    /\ returned.op.kind = "ViewSet"
    /\ returned.err = "nil"
    /\ ValidDigest(returned.op.dgst)
    /\ ValidDescriptor(returned.op.desc)

\* C4 as stated: from any prior state, after Vw.SetDescriptor(D, V) returns
\* success, Vw.Stat(D) and provider.Stat(D) both return V.
C4_MirroredFromAnyState ==
    ViewSetSucceeded
        => /\ RepositoryStat(view[returned.thread].repository, returned.op.dgst)
                  = Found(returned.op.desc)
           /\ Stat(global, returned.op.dgst) = Found(returned.op.desc)

\* C4 amended: after a Vw.SetDescriptor(D, V) that no other call overlaps
\* returns success, Vw.Stat(D) returns V and provider.Stat(D) succeeds;
\* provider.Stat(D) returns V when the global cache did not hold D before the
\* call.
C4_MirroredWhenNew ==
    ViewSetSucceeded
        => /\ RepositoryStat(view[returned.thread].repository, returned.op.dgst)
                  = Found(returned.op.desc)
           /\ Stat(global, returned.op.dgst).err = "nil"
           /\ returned.lookup = "ErrBlobUnknown"
                  => Stat(global, returned.op.dgst) = Found(returned.op.desc)

\* A write through a view has returned success, the global cache did not hold
\* D before, and the view and the provider both answer V.
C4_Witness ==
    /\ ViewSetSucceeded
    /\ returned.lookup = "ErrBlobUnknown"
    /\ RepositoryStat(view[returned.thread].repository, returned.op.dgst)
           = Found(returned.op.desc)
    /\ Stat(global, returned.op.dgst) = Found(returned.op.desc)

\* provider.SetDescriptor(D, V) with V.digest = D has just returned success.
ProviderSetOfOwnDigest ==
    /\ returned.op.kind = "ProviderSet"
    /\ returned.err = "nil"
    /\ ValidDigest(returned.op.dgst)
    /\ ValidDescriptor(returned.op.desc)
    /\ returned.op.desc.digest = returned.op.dgst

\* C5 as stated: from any prior state of the global cache, after
\* provider.SetDescriptor(D, V) with V.digest = D returns success,
\* provider.Stat(D) returns V.
C5_RoundTripFromAnyState ==
    ProviderSetOfOwnDigest => Stat(global, returned.op.dgst) = Found(returned.op.desc)

\* C5 amended: after a provider.SetDescriptor(D, V) with V.digest = D that no
\* other call overlaps returns success, provider.Stat(D) succeeds; it returns V
\* when the global cache did not hold D before the call.
C5_RoundTripWhenNew ==
    ProviderSetOfOwnDigest
        => /\ Stat(global, returned.op.dgst).err = "nil"
           /\ returned.lookup = "ErrBlobUnknown"
                  => Stat(global, returned.op.dgst) = Found(returned.op.desc)

\* A provider.SetDescriptor(D, V) with V.digest = D of a D new to the global
\* cache has returned success and provider.Stat(D) answers V.
C5_Witness ==
    /\ ProviderSetOfOwnDigest
    /\ returned.lookup = "ErrBlobUnknown"
    /\ Stat(global, returned.op.dgst) = Found(returned.op.desc)

ValidRepos == {r \in RepoNames : ValidateRepositoryName(r) = "nil"}

ValidDigests == {d \in Digests : ValidDigest(d)}

\* C6: what Stat(D) answers for a well-formed D on a view of a repository
\* changes only in a step of a SetDescriptor made through a view of that same
\* repository with that same digest; so a digest written only through views of
\* R (and through the provider) stays BlobUnknown on every view of another
\* repository R2, and a write through a view of R adds nothing to the leaf
\* cache of R2.
C6_RepositoryIsolation ==
    [][\A r \in ValidRepos, d \in ValidDigests :
          (RepositoryStat(Lookup(repositories, r), d))'
                  # RepositoryStat(Lookup(repositories, r), d)
              => \E t \in Threads :
                    /\ Stepper(t)
                    /\ CallOf(t).kind = "ViewSet"
                    /\ CallOf(t).repo = r
                    /\ CallOf(t).dgst = d]_vars

\* A digest is held by the leaf cache of one repository and by the global
\* cache, and a view of another repository, whose leaf cache exists and holds
\* another digest, answers BlobUnknown for it.
C6_Witness ==
    \E r1 \in ValidRepos, r2 \in ValidRepos, d \in ValidDigests :
        /\ r1 # r2
        /\ RepositoryStat(Lookup(repositories, r1), d).err = "nil"
        /\ Stat(global, d).err = "nil"
        /\ Lookup(repositories, r2) # 0
        /\ DOMAIN heap[Lookup(repositories, r2)].descriptors # {}
        /\ RepositoryStat(Lookup(repositories, r2), d).err = "ErrBlobUnknown"

\* C7: with the writers through views using pairwise distinct digests, every
\* SetDescriptor(D, V) through a view with well-formed D and V returns
\* success, and once it has returned Stat(D) on a freshly obtained view of the
\* repository returns V, in every interleaving.
C7_ConcurrentFirstWrites ==
    (returned.op.kind = "ViewSet" /\ ValidDigest(returned.op.dgst)
                                  /\ ValidDescriptor(returned.op.desc))
        => /\ returned.err = "nil"
           /\ RepositoryStat(Lookup(repositories, returned.op.repo), returned.op.dgst)
                  = Found(returned.op.desc)

\* Two threads, each on its own view of one repository, have both written and
\* returned: the one leaf cache holds the digests of both, and a fresh view
\* answers the last writer's descriptor.
C7_Witness ==
    /\ returned.op.kind = "ViewSet"
    /\ returned.err = "nil"
    /\ Len(heap) = 1
    /\ \A t \in Threads : pc[t] = "idle" /\ view[t] = [repo |-> heap[1].repo, repository |-> 1]
    /\ \A t \in Threads : \E d \in OwnDigests(t) : d \in DOMAIN heap[1].descriptors
    /\ RepositoryStat(Lookup(repositories, returned.op.repo), returned.op.dgst)
           = Found(returned.op.desc)

\* C8: every leaf cache ever made for a repository is the table's entry for
\* that repository's name (so one at most is made per name, and an entry is
\* never replaced or removed), and the backing reference of every view, when
\* not nil, is the table's entry for the view's repository.
C8_SingleLeafPerRepository ==
    /\ \A i \in 1..Len(heap) : Lookup(repositories, heap[i].repo) = i
    /\ \A r \in DOMAIN repositories :
          repositories[r] \in 1..Len(heap) /\ heap[repositories[r]].repo = r
    /\ \A t \in Threads :
          view[t].repository # 0
              => view[t].repository = Lookup(repositories, view[t].repo)

\* Two threads whose views of one repository were both unbound are both past
\* the allocation, bound to the same single leaf cache.
C8_Witness ==
    /\ \A t \in Threads : pc[t] = "repoSet"
    /\ \E r \in ValidRepos : \A t \in Threads : view[t] = [repo |-> r, repository |-> 1]
    /\ Len(heap) = 1

\* The entries of the global cache and of every leaf cache made so far are
\* the same after the step; a leaf cache made in the step is empty.
CachesUnchanged ==
    /\ global' = global
    /\ Len(heap') >= Len(heap)
    /\ \A i \in 1..Len(heap') :
          heap'[i].descriptors =
              IF i <= Len(heap) THEN heap[i].descriptors ELSE newMapBlobDescriptorCache

\* C9: every SetDescriptor with a well-formed digest and a malformed
\* descriptor, on the provider or through a view, whether or not the digest is
\* held already, fails with InvalidDescriptor and changes no entry of the
\* global cache or of a leaf cache.
C9_MalformedDescriptorRejected ==
    [][\A t \in Threads :
          (/\ Stepper(t)
           /\ CallOf(t).kind \in {"ProviderSet", "ViewSet"}
           /\ ValidDigest(CallOf(t).dgst)
           /\ ~ValidDescriptor(CallOf(t).desc))
              => /\ CachesUnchanged
                 /\ Returns(t) => returned'.err = "InvalidDescriptor"]_vars

\* The step is one of a Stat or SetDescriptor of thread t with a malformed
\* digest.
MalformedDigestStep(t) ==
    /\ Stepper(t)
    /\ CallOf(t).kind \in {"ProviderStat", "ViewStat", "ProviderSet", "ViewSet"}
    /\ ~ValidDigest(CallOf(t).dgst)

\* C10 as stated: every Stat and SetDescriptor with a malformed digest, on the
\* provider or through a view bound or unbound, fails with InvalidDigest and
\* changes no entry of a descriptor map.
C10_MalformedDigestRejected ==
    [][\A t \in Threads :
          MalformedDigestStep(t)
              => /\ CachesUnchanged
                 /\ Returns(t) => returned'.err = "InvalidDigest"]_vars

\* C10 amended: every Stat and SetDescriptor with a malformed digest fails with
\* InvalidDigest, except Stat through a view whose backing leaf cache is
\* unbound, which fails with BlobUnknown; none changes an entry of a
\* descriptor map.
C10_MalformedDigestRejectedWhenBound ==
    [][\A t \in Threads :
          MalformedDigestStep(t)
              => /\ CachesUnchanged
                 /\ Returns(t) =>
                       returned'.err =
                           IF CallOf(t).kind = "ViewStat" /\ view[t].repository = 0
                           THEN "ErrBlobUnknown"
                           ELSE "InvalidDigest"]_vars

\* A Stat with a malformed digest through a view bound to a leaf cache that
\* holds entries has failed with InvalidDigest.
C10_Witness ==
    /\ returned.op.kind = "ViewStat"
    /\ ~ValidDigest(returned.op.dgst)
    /\ returned.err = "InvalidDigest"
    /\ view[returned.thread].repository # 0
    /\ DOMAIN heap[view[returned.thread].repository].descriptors # {}

\* C11: RepositoryScoped(R) with a well-formed name R succeeds and returns a
\* view of R; and Stat(D) with a well-formed D through a view of a repository
\* that has never been written to (the table has no entry for it) fails with
\* BlobUnknown, whatever the global cache and the other repositories hold.
C11_ReadBeforeWrite ==
    /\ (returned.op.kind = "RepositoryScoped" /\ returned.op.repo \in ValidRepos)
          => /\ returned.err = "nil"
             /\ view[returned.thread].repo = returned.op.repo
    /\ (/\ returned.op.kind = "ViewStat"
        /\ returned.op.repo \in ValidRepos \ DOMAIN repositories
        /\ ValidDigest(returned.op.dgst))
          => /\ returned.err = "ErrBlobUnknown"
             /\ returned.desc = EmptyDescriptor

\* A Stat(D) through a view of a repository never written to has failed with
\* BlobUnknown while the global cache and the leaf cache of another repository
\* hold D.
C11_Witness ==
    /\ returned.op.kind = "ViewStat"
    /\ returned.op.repo \in ValidRepos \ DOMAIN repositories
    /\ returned.err = "ErrBlobUnknown"
    /\ returned.op.dgst \in DOMAIN global
    /\ \E i \in 1..Len(heap) : returned.op.dgst \in DOMAIN heap[i].descriptors

\* The table gets an entry for the repository r in the step taken.
BecomesBound(r) == r \notin DOMAIN repositories /\ r \in DOMAIN repositories'

\* C12 as stated: a repository goes from Unbound to Bound only in a step of a
\* SetDescriptor through a view of it that succeeds (its digest and descriptor
\* are well-formed); a failing one leaves the table without an entry.
C12_BoundOnlyBySuccessfulWrite ==
    [][\A r \in RepoNames :
          BecomesBound(r)
              => \E t \in Threads :
                    /\ Stepper(t)
                    /\ CallOf(t).kind = "ViewSet"
                    /\ CallOf(t).repo = r
                    /\ ValidDigest(CallOf(t).dgst)
                    /\ ValidDescriptor(CallOf(t).desc)]_vars

\* C12 amended: a repository goes from Unbound to Bound only in a step of a
\* SetDescriptor through a view of it, to an empty leaf cache, and never goes
\* back; every SetDescriptor through a view, failed ones included, returns
\* with the table holding an entry for the view's repository.
C12_BoundByAnyWrite ==
    [][/\ \A r \in RepoNames :
            BecomesBound(r)
                => /\ \E t \in Threads :
                         /\ Stepper(t)
                         /\ CallOf(t).kind = "ViewSet"
                         /\ CallOf(t).repo = r
                   /\ heap'[repositories'[r]].descriptors = newMapBlobDescriptorCache
       /\ DOMAIN repositories \subseteq DOMAIN repositories'
       /\ \A t \in Threads :
            (Returns(t) /\ returned'.op.kind = "ViewSet")
                => returned'.op.repo \in DOMAIN repositories']_vars

\* A SetDescriptor through a view of a repository never written to has failed,
\* and the table holds an empty leaf cache for the repository.
C12_Witness ==
    /\ returned.op.kind = "ViewSet"
    /\ returned.err # "nil"
    /\ returned.op.repo \in DOMAIN repositories
    /\ heap[repositories[returned.op.repo]].descriptors = newMapBlobDescriptorCache

\* C13: no step of a SetDescriptor through a view whose write to the leaf cache
\* fails (malformed digest or malformed descriptor) changes the global cache
\* or enters the provider's SetDescriptor, and the call returns the error of
\* the write.
C13_FailedWriteKeepsGlobal ==
    [][\A t \in Threads :
          (/\ Stepper(t)
           /\ CallOf(t).kind = "ViewSet"
           /\ ~(ValidDigest(CallOf(t).dgst) /\ ValidDescriptor(CallOf(t).desc)))
              => /\ global' = global
                 /\ pc'[t] \notin {"stat", "canon", "alias"}
                 /\ Returns(t) =>
                       returned'.err = IF ValidDigest(CallOf(t).dgst)
                                       THEN "InvalidDescriptor"
                                       ELSE "InvalidDigest"]_vars

\* A SetDescriptor through a view has failed on a malformed descriptor for a
\* digest the global cache holds (for which the provider's SetDescriptor would
\* have returned success).
C13_Witness ==
    /\ returned.op.kind = "ViewSet"
    /\ returned.err = "InvalidDescriptor"
    /\ returned.lookup = "none"
    /\ returned.op.dgst \in DOMAIN global

\* C14: a RepositoryScoped call, whatever the name, leaves the repository
\* table, every leaf cache and the global cache as they were; on a malformed
\* name it fails with InvalidRepositoryName, otherwise it succeeds and the
\* backing reference of the view returned is the table's entry for the name,
\* nil when there is none.
C14_RepositoryScopedReadOnly ==
    [][\A t \in Threads :
          (Returns(t) /\ returned'.op.kind = "RepositoryScoped")
              => /\ repositories' = repositories
                 /\ heap' = heap
                 /\ global' = global
                 /\ IF returned'.op.repo \in ValidRepos
                    THEN /\ returned'.err = "nil"
                         /\ view'[t].repo = returned'.op.repo
                         /\ view'[t].repository =
                               IF returned'.op.repo \in DOMAIN repositories
                               THEN repositories[returned'.op.repo]
                               ELSE 0
                    ELSE returned'.err = "InvalidRepositoryName"]_vars

\* RepositoryScoped has returned a view of a repository that another
\* repository's write left without a table entry: the view is unbound and the
\* table holds the other repository only.
C14_Witness ==
    /\ returned.op.kind = "RepositoryScoped"
    /\ returned.err = "nil"
    /\ view[returned.thread] = [repo |-> returned.op.repo, repository |-> 0]
    /\ DOMAIN repositories # {}
    /\ returned.op.repo \notin DOMAIN repositories

\* The descriptor maps of all leaf caches: the global one and those of the
\* repositories.
LeafCaches == {global} \cup {heap[i].descriptors : i \in 1..Len(heap)}

\* C16: in every leaf cache, an entry whose descriptor's digest is of the same
\* algorithm as its key has that key as its descriptor's digest.
C16_KeyValueConsistency ==
    \A m \in LeafCaches : \A k \in DOMAIN m :
        Algorithm(m[k].digest) = Algorithm(k) => m[k].digest = k

C18_StaleUnboundView ==
    [][\A t \in Threads :
          /\ (Returns(t) /\ returned'.op.kind = "ViewStat")
                => [desc |-> returned'.desc, err |-> returned'.err] =
                      IF view[t].repository = 0
                      THEN [desc |-> EmptyDescriptor, err |-> "ErrBlobUnknown"]
                      ELSE Stat(heap[view[t].repository].descriptors, returned'.op.dgst)
          /\ (view[t].repository = 0 /\ view'[t].repository # 0)
                => /\ Stepper(t)
                   /\ CallOf(t).kind \in {"ViewSet", "RepositoryScoped"}
          /\ (/\ Returns(t)
              /\ returned'.op.kind = "RepositoryScoped"
              /\ returned'.op.repo \in DOMAIN repositories)
                => view'[t].repository = repositories[returned'.op.repo]]_vars

\* A Stat(D) through a view obtained while its repository was unbound has
\* failed with BlobUnknown after another view wrote D: the table's entry for
\* the repository holds D.
C18_Witness ==
    /\ returned.op.kind = "ViewStat"
    /\ returned.err = "ErrBlobUnknown"
    /\ view[returned.thread] = [repo |-> returned.op.repo, repository |-> 0]
    /\ returned.op.repo \in DOMAIN repositories
    /\ returned.op.dgst \in DOMAIN heap[repositories[returned.op.repo]].descriptors

\* C19: a provider.SetDescriptor that returns an error has written nothing to
\* the global cache: the error comes from its lookup, from its first store
\* (of the canonical entry), or from the store of the alias in a call that
\* made no first store, and the returning step leaves the global cache as it
\* was. The alias never fails after the canonical entry was written.
C19_NoPartialAliasOnError ==
    [][\A t \in Threads :
          (/\ Returns(t)
           /\ returned'.op.kind = "ProviderSet"
           /\ returned'.err # "nil")
              => /\ global' = global
                 /\ \/ pc[t] \in {"idle", "canon"}
                    \/ /\ pc[t] = "alias"
                       /\ ~(/\ Algorithm(returned'.op.dgst)
                                  # Algorithm(returned'.op.desc.digest)
                            /\ returned'.op.dgst # returned'.op.desc.digest)]_vars

\* A provider.SetDescriptor(D, V) of a D new to the global cache, with a
\* malformed V whose digest is of another algorithm than D, has failed at its
\* first store, and the global cache holds neither key.
C19_Witness ==
    /\ returned.op.kind = "ProviderSet"
    /\ returned.err = "InvalidDescriptor"
    /\ returned.lookup = "ErrBlobUnknown"
    /\ CanonicalDiffers(returned.op.dgst, returned.op.desc)
    /\ returned.op.desc.digest \notin DOMAIN global
    /\ returned.op.dgst \notin DOMAIN global

\* No SetDescriptor through a view is in progress.
Quiescent == \A t \in Threads : op[t].kind # "ViewSet"

\* C20: in every state with no SetDescriptor through a view in progress, the
\* keys of every repository's leaf cache are keys of the global cache; and no
\* step removes a key from the global cache or from a leaf cache, or a leaf
\* cache from the table, so a digest found once in a scope is found ever
\* after by a view bound to that scope.
C20_RepositoryKeysInGlobal ==
    /\ [](Quiescent =>
            \A i \in 1..Len(heap) :
                DOMAIN heap[i].descriptors \subseteq DOMAIN global)
    /\ [][/\ DOMAIN global \subseteq DOMAIN global'
           /\ \A i \in 1..Len(heap) :
                 /\ i <= Len(heap')
                 /\ heap'[i].repo = heap[i].repo
                 /\ DOMAIN heap[i].descriptors \subseteq DOMAIN heap'[i].descriptors
           /\ \A r \in DOMAIN repositories :
                 r \in DOMAIN repositories' /\ repositories'[r] = repositories[r]]_vars

\* With no call in progress, two repositories hold different sets of keys,
\* and the global cache holds the keys of both.
C20_Witness ==
    /\ \A t \in Threads : pc[t] = "idle"
    /\ Len(heap) = 2
    /\ DOMAIN heap[1].descriptors # {}
    /\ DOMAIN heap[2].descriptors # {}
    /\ DOMAIN heap[1].descriptors # DOMAIN heap[2].descriptors
    /\ DOMAIN heap[1].descriptors \cup DOMAIN heap[2].descriptors \subseteq DOMAIN global

\* No thread holds two mutexes; a thread that has yet to take the mutex of
\* its next critical section holds none (so none holds the table's mutex
\* while holding or waiting for a leaf cache's, or the reverse, or two leaf
\* caches' mutexes); a thread outside any call holds none.
LockDiscipline ==
    \A t \in Threads :
        /\ Cardinality(held[t]) <= 1
        /\ Needed(t) \ held[t] # {} => held[t] = {}
        /\ op[t] = NoOp => held[t] = {}

\* While a call is in progress, some thread inside a call can take a step.
NoDeadlock ==
    (\E t \in Threads : op[t] # NoOp)
        => \E t \in Threads : ENABLED (AcquireLock(t) \/ Section(t))

\* C15: in every reachable state the mutexes are held as LockDiscipline
\* says; no interleaving of Stat, SetDescriptor and RepositoryScoped calls
\* reaches a state where calls are in progress and none can step; and under
\* fair scheduling every call entered returns.
C15_LockDiscipline ==
    /\ []LockDiscipline
    /\ []NoDeadlock
    /\ \A t \in Threads : (op[t] # NoOp) ~> (op[t] = NoOp)

\* A thread waits for a leaf cache's mutex that another thread holds, while
\* the table holds a leaf cache for a repository.
C15_Witness ==
    /\ DOMAIN repositories # {}
    /\ \E t \in Threads, u \in Threads :
          /\ t # u
          /\ \E l \in Needed(t) \ held[t], h \in held[u] :
                /\ l.mu = "leaf"
                /\ SameMutex(h, l)
                /\ ~Free(l)

====
